---- MODULE Spec2Model ----
(***************************************************************************)
(* Model of renderer.py: the SheetGenerator lifecycle (open / append /     *)
(* close), its three implementations CSV, MarkDown and HTML, and the       *)
(* factory initSheet.                                                      *)
(*                                                                         *)
(* Text is a sequence of lexical tokens.  The fixed literals of the source *)
(* are written with the tokens "<", "</", ">", "/>", "{0}", "\n", ",",     *)
(* "|", " " and one token per word; a text of a record is a sequence of    *)
(* the same tokens, so that a field can carry the line terminator, a       *)
(* delimiter or markup.  Integers are rendered digit by digit.             *)
(***************************************************************************)
EXTENDS Integers, Sequences, FiniteSets, TLC

\* ---------------------------------------------------------------- bounds
MaxRows == 2
MaxHandles == 3
MaxTagLen == 4

\* ------------------------------------------------------- text primitives
NL == "\n"

RECURSIVE Concat(_)
\* ''.join(parts)
Concat(parts) ==
    IF parts = <<>> THEN <<>> ELSE Head(parts) \o Concat(Tail(parts))

RECURSIVE Join(_, _)
\* sep.join(parts)
Join(sep, parts) ==
    IF parts = <<>> THEN <<>>
    ELSE IF Len(parts) = 1 THEN parts[1]
    ELSE parts[1] \o sep \o Join(sep, Tail(parts))

Digit(d) == <<"0", "1", "2", "3", "4", "5", "6", "7", "8", "9">>[d + 1]

RECURSIVE Str(_)
\* str(n) of a non-negative integer, as done by "%s" and by an f-string
Str(n) == IF n < 10 THEN <<Digit(n)>> ELSE Str(n \div 10) \o <<Digit(n % 10)>>

RECURSIVE Replace(_, _, _)
\* s.replace(old, new): leftmost non-overlapping occurrences
Replace(s, old, new) ==
    IF Len(s) < Len(old) THEN s
    ELSE IF SubSeq(s, 1, Len(old)) = old
         THEN new \o Replace(SubSeq(s, Len(old) + 1, Len(s)), old, new)
         ELSE <<Head(s)>> \o Replace(Tail(s), old, new)

\* template.format(arg): every replacement field {0} becomes arg
Format(template, arg) == Replace(template, <<"{0}">>, arg)

EndsWith(s, suffix) ==
    /\ Len(s) >= Len(suffix)
    /\ SubSeq(s, Len(s) - Len(suffix) + 1, Len(s)) = suffix

LowerChar(c) ==
    CASE c = "H" -> "h" [] c = "T" -> "t" [] c = "M" -> "m"
      [] c = "L" -> "l" [] c = "D" -> "d" [] c = "C" -> "c"
      [] c = "S" -> "s" [] c = "V" -> "v" [] OTHER -> c

\* str.lower()
Lower(s) == [i \in 1..Len(s) |-> LowerChar(s[i])]

\* ------------------------------------------------------ module constants
AUTHOR == <<"Author">>
TITLE == <<"Title">>
ORIGINS == <<"Origins">>
TAGS == <<"Tags">>

\* ------------------------------------------------------------------ CSV
\* variant: the WID column is missing from the header
CSV_table_NoWID ==
    Join(<<",">>, <<AUTHOR \o <<" ", "UID">>, AUTHOR \o <<" ", "user", " ", "name">>,
                    TITLE, ORIGINS, TAGS>>)

CSV_table ==
    Join(<<",">>, <<AUTHOR \o <<" ", "UID">>, AUTHOR \o <<" ", "user", " ", "name">>,
                    <<"WID">>, TITLE, ORIGINS, TAGS>>)

\* variant: the two tag collections joined with ", " as the other formats do
CSV_tableItem_CommaTags(p) ==
    Str(p.author_uid) \o <<",">> \o p.author_name \o <<",">> \o Str(p.wid)
        \o <<",">> \o p.title \o <<",">> \o Join(<<",", " ">>, p.hashtags)
        \o <<",">> \o Join(<<",", " ">>, p.tags)

CSV_tableItem(p) ==
    Str(p.author_uid) \o <<",">> \o p.author_name \o <<",">> \o Str(p.wid)
        \o <<",">> \o p.title \o <<",">> \o Join(<<" ">>, p.hashtags)
        \o <<",">> \o Join(<<" ">>, p.tags)

\* ------------------------------------------------------------- MarkDown
RECURSIVE MarkDown_table_item(_)
MarkDown_table_item(elems) ==
    IF elems = <<>> THEN <<"|">>
    ELSE <<"|">> \o Head(elems) \o MarkDown_table_item(Tail(elems))

MarkDown_table ==
    MarkDown_table_item(<<AUTHOR, TITLE, ORIGINS, TAGS>>) \o <<NL>>
        \o MarkDown_table_item(<<<<"-">>, <<"-">>, <<"-">>, <<"-">>>>) \o <<NL>>

MarkDown_link(str_shown, str_link) ==
    <<"[">> \o str_shown \o <<"]", "(">> \o str_link \o <<")">>

MarkDown_tableItem(domain, p) ==
    MarkDown_table_item(<<
        MarkDown_link(p.author_name,
                      <<"https://">> \o domain \o <<"/u">> \o Str(p.author_uid)),
        MarkDown_link(p.title,
                      <<"https://">> \o domain \o <<"/wid">> \o Str(p.wid)),
        Join(<<",", " ">>, p.hashtags),
        Join(<<",", " ">>, p.tags)>>)

\* ----------------------------------------------------------------- HTML
RECURSIVE HTML_properties(_)
\* the loop over properties.items(): each adds  k="v"  after a space
HTML_properties(props) ==
    IF props = <<>> THEN <<>>
    ELSE <<" ", Head(props)[1], "=", "\"">> \o Head(props)[2] \o <<"\"">>
             \o HTML_properties(Tail(props))

\* label(item, end, **properties): a template with the field {0}
HTML_label(item, end, props) ==
    <<"<", item>> \o HTML_properties(props)
        \o (IF end THEN <<">", "{0}", "</", item, ">">> ELSE <<"/>", "{0}">>)

HTML_table_item(elems, header) ==
    Format(HTML_label("tr", TRUE, <<>>),
           Concat([i \in 1..Len(elems) |->
                     Format(HTML_label(IF header THEN "th" ELSE "td", FALSE, <<>>),
                            elems[i])]))

HTML_head ==
    Format(HTML_label("head", TRUE, <<>>),
           Replace(Format(HTML_label("meta", FALSE, <<<<"charset", <<"utf-8">>>>>>), <<>>),
                   <<"/>">>, <<">">>)
             \o Format(HTML_label("title", TRUE, <<>>),
                       <<"Wland", " ", "Parody", " ", "Filter">>))

HTML_link(str_shown, str_link) ==
    Format(HTML_label("a", TRUE, <<<<"href", str_link>>,
                                   <<"target", <<"_blank">>>>,
                                   <<"rel", <<"noopener", " ", "noreferrer">>>>>>),
           str_shown)

HTML_table ==
    Format(HTML_label("table", TRUE, <<<<"border", Str(1)>>>>),
           Format(HTML_label("caption", FALSE, <<>>), <<"Search", " ", "Result">>)
             \o HTML_table_item(<<AUTHOR, TITLE, ORIGINS, TAGS>>, TRUE))

\* variant: the title link is built with the author path
HTML_tableItem_TitlePath(domain, p) ==
    HTML_table_item(<<
        HTML_link(p.author_name,
                  <<"https://">> \o domain \o <<"/u">> \o Str(p.author_uid)),
        HTML_link(p.title,
                  <<"https://">> \o domain \o <<"/u">> \o Str(p.wid)),
        Join(<<",", " ">>, p.hashtags),
        Join(<<",", " ">>, p.tags)>>, FALSE)

HTML_tableItem(domain, p) ==
    HTML_table_item(<<
        HTML_link(p.author_name,
                  <<"https://">> \o domain \o <<"/u">> \o Str(p.author_uid)),
        HTML_link(p.title,
                  <<"https://">> \o domain \o <<"/wid">> \o Str(p.wid)),
        Join(<<",", " ">>, p.hashtags),
        Join(<<",", " ">>, p.tags)>>, FALSE)

\* the two writes of HTML.open and the write of HTML.close
HTML_open_head == <<"<", "html", ">">> \o HTML_head \o <<NL>>
\* variant: the closing tag of the table is not stripped
HTML_open_body_KeepsTableClose ==
    <<"<", "body", ">">> \o HTML_table \o <<NL>>

HTML_open_body ==
    <<"<", "body", ">">> \o Replace(HTML_table, <<"</", "table", ">">>, <<>>) \o <<NL>>
HTML_close_footer ==
    <<"</", "table", ">", "</", "body", ">", "</", "html", ">", NL>>

\* -------------------------------------------------------------- records
\* WlandPassage values appended by the caller: the scenario record of the
\* specification, one whose fields carry the line terminator and the
\* delimiters of CSV and MarkDown, and one whose fields carry markup.
Passages ==
    { [author_uid |-> 1, author_name |-> <<"A">>, wid |-> 10, title |-> <<"T">>,
       hashtags |-> <<<<"x">>, <<"y">>>>, tags |-> <<<<"t", "1">>>>],
      [author_uid |-> 42, author_name |-> <<"B", ",", "C">>, wid |-> 7,
       title |-> <<"a", NL, "b">>,
       hashtags |-> <<>>, tags |-> <<<<"t", "|">>, <<"u">>>>],
      [author_uid |-> 0, author_name |-> <<"<", "tr", ">">>, wid |-> 105,
       title |-> <<"</", "table", ">">>,
       hashtags |-> <<<<"x">>>>, tags |-> <<>>] }

Domains == { <<"example.org">>, <<"w.land">> }

\* format tags the writers of the lifecycle specification are built from
SampleTags == { <<"c", "s", "v">>, <<"m", "d">>, <<"H", "T", "M", "L">>, <<"h", "t", "m">> }

\* ------------------------------------------------------------- factory
None == 0
NoAttr == <<>>

PathPrefix == <<".", "/", "w", "l", "a", "n", "d", ".">>

\* variant: the CSV writer is given the domain as the other two are
initSheet_CSVKeepsDomain(tag, domain) ==
    LET path == PathPrefix \o Lower(tag) IN
    IF EndsWith(path, <<"h", "t", "m", "l">>) \/ EndsWith(path, <<"h", "t", "m">>)
    THEN [cls |-> "HTML", fn |-> path, enc |-> "utf-8", wland_domain |-> domain]
    ELSE IF EndsWith(path, <<"m", "d">>)
    THEN [cls |-> "MarkDown", fn |-> path, enc |-> "utf-8", wland_domain |-> domain]
    ELSE [cls |-> "CSV", fn |-> path, enc |-> "utf-8-sig", wland_domain |-> domain]

\* variant: the tag is not lower-cased
initSheet_NoLower(tag, domain) ==
    LET path == PathPrefix \o tag IN
    IF EndsWith(path, <<"h", "t", "m", "l">>) \/ EndsWith(path, <<"h", "t", "m">>)
    THEN [cls |-> "HTML", fn |-> path, enc |-> "utf-8", wland_domain |-> domain]
    ELSE IF EndsWith(path, <<"m", "d">>)
    THEN [cls |-> "MarkDown", fn |-> path, enc |-> "utf-8", wland_domain |-> domain]
    ELSE [cls |-> "CSV", fn |-> path, enc |-> "utf-8-sig", wland_domain |-> NoAttr]

\* initSheet(ft, url): the writer object after construction
initSheet(tag, domain) ==
    LET path == PathPrefix \o Lower(tag) IN
    IF EndsWith(path, <<"h", "t", "m", "l">>) \/ EndsWith(path, <<"h", "t", "m">>)
    THEN [cls |-> "HTML", fn |-> path, enc |-> "utf-8", wland_domain |-> domain]
    ELSE IF EndsWith(path, <<"m", "d">>)
    THEN [cls |-> "MarkDown", fn |-> path, enc |-> "utf-8", wland_domain |-> domain]
    ELSE [cls |-> "CSV", fn |-> path, enc |-> "utf-8-sig", wland_domain |-> NoAttr]

\* ---------------------------------------------------------------- state
VARIABLES
    ft,            \* the format tag given to initSheet
    url,           \* the domain given to initSheet
    cls,           \* class of the writer: "CSV", "MarkDown", "HTML"
    fn,            \* self.fn
    enc,           \* self.enc
    wland_domain,  \* self.wland_domain (NoAttr for CSV)
    stream,        \* self.__stream: None or a handle
    closed,        \* closed[h]: handle h returned by aiofiles.open was closed
    file,          \* text of the file at path fn
    ret,           \* outcome of the latest call: returned value or exception
    appended,      \* records whose append returned since the file was opened
    clean,         \* no call has raised since the file was opened
    twin           \* a second writer, built from the same tag and another
                   \* domain and given the same calls (SpecPair only)

vars == <<ft, url, cls, fn, enc, wland_domain, stream, closed, file, ret,
          appended, clean, twin>>

NoTwin == "none"

NoExc == "none"

\* outcomes of the I/O requests of one call: TRUE = the request succeeds,
\* FALSE = it raises OSError
AllOk == [open |-> TRUE, hdr1 |-> TRUE, hdr2 |-> TRUE, row |-> TRUE,
          footer |-> TRUE, close |-> TRUE]

R(s, exc, value) == [s |-> s, exc |-> exc, value |-> value]

\* await stream.write(text)
Write(s, text, ok) ==
    IF s.stream = None THEN R(s, "AttributeError", "-")
    ELSE IF s.closed[s.stream] THEN R(s, "ValueError", "-")
    ELSE IF ~ok THEN R(s, "OSError", "-")
    ELSE R([s EXCEPT !.file = @ \o text], NoExc, "-")

\* SheetGenerator.close
SheetGenerator_close(s, io) ==
    IF s.stream = None THEN R(s, "AttributeError", "-")
    ELSE IF s.closed[s.stream] THEN R([s EXCEPT !.stream = None], NoExc, "None")
    ELSE IF ~io.close
         THEN R([s EXCEPT !.closed[s.stream] = TRUE], "OSError", "-")
    ELSE R([s EXCEPT !.closed[s.stream] = TRUE, !.stream = None], NoExc, "None")

\* HTML.close: writable() raises on None and on a closed file, and is True
\* on every file opened with mode 'w'
HTML_close(s, io) ==
    IF s.stream = None THEN R(s, "AttributeError", "-")
    ELSE IF s.closed[s.stream] THEN R(s, "ValueError", "-")
    ELSE LET w == Write(s, HTML_close_footer, io.footer) IN
         IF w.exc # NoExc THEN w ELSE SheetGenerator_close(w.s, io)

close(c, s, io) ==
    IF c = "HTML" THEN HTML_close(s, io) ELSE SheetGenerator_close(s, io)

\* variant: the file is opened for appending, not truncated
SheetGenerator_open_NoTruncate(c, s, io) ==
    IF io.open
    THEN R([stream |-> Len(s.closed) + 1, closed |-> Append(s.closed, FALSE),
            file |-> s.file], NoExc, "True")
    ELSE LET r == close(c, s, io) IN
         IF r.exc # NoExc THEN r ELSE R(r.s, NoExc, "False")

\* SheetGenerator.open
SheetGenerator_open(c, s, io) ==
    IF io.open
    THEN R([stream |-> Len(s.closed) + 1, closed |-> Append(s.closed, FALSE),
            file |-> <<>>], NoExc, "True")
    ELSE LET r == close(c, s, io) IN
         IF r.exc # NoExc THEN r ELSE R(r.s, NoExc, "False")

CSV_open(s, io) ==
    LET b == SheetGenerator_open("CSV", s, io) IN
    IF b.exc # NoExc THEN b
    ELSE IF b.value # "True" THEN R(b.s, NoExc, "None")
    ELSE LET w == Write(b.s, CSV_table \o <<NL>>, io.hdr1) IN
         IF w.exc # NoExc THEN w ELSE R(w.s, NoExc, "None")

MarkDown_open(s, io) ==
    LET b == SheetGenerator_open("MarkDown", s, io) IN
    IF b.exc # NoExc THEN b
    ELSE IF b.value # "True" THEN R(b.s, NoExc, "None")
    ELSE LET w == Write(b.s, MarkDown_table, io.hdr1) IN
         IF w.exc # NoExc THEN w ELSE R(w.s, NoExc, "None")

HTML_open(s, io) ==
    LET b == SheetGenerator_open("HTML", s, io) IN
    IF b.exc # NoExc THEN b
    ELSE IF b.value # "True" THEN R(b.s, NoExc, "None")
    ELSE LET w1 == Write(b.s, HTML_open_head, io.hdr1) IN
         IF w1.exc # NoExc THEN w1
         ELSE LET w2 == Write(w1.s, HTML_open_body, io.hdr2) IN
              IF w2.exc # NoExc THEN w2 ELSE R(w2.s, NoExc, "None")

open(c, s, io) ==
    CASE c = "CSV" -> CSV_open(s, io)
      [] c = "MarkDown" -> MarkDown_open(s, io)
      [] c = "HTML" -> HTML_open(s, io)

tableItem(c, domain, p) ==
    CASE c = "CSV" -> CSV_tableItem(p)
      [] c = "MarkDown" -> MarkDown_tableItem(domain, p)
      [] c = "HTML" -> HTML_tableItem(domain, p)

\* variant: the row is written without the line terminator
SheetGenerator_append_NoNewline(c, domain, s, p, io) ==
    LET w == Write(s, tableItem(c, domain, p), io.row) IN
    IF w.exc # NoExc THEN w ELSE R(w.s, NoExc, "None")

\* SheetGenerator.append
SheetGenerator_append(c, domain, s, p, io) ==
    LET w == Write(s, tableItem(c, domain, p) \o <<NL>>, io.row) IN
    IF w.exc # NoExc THEN w ELSE R(w.s, NoExc, "None")

\* ------------------------------------------------------------- actions
S == [stream |-> stream, closed |-> closed, file |-> file]

Constructed(w) ==
    /\ cls = w.cls /\ fn = w.fn /\ enc = w.enc /\ wland_domain = w.wland_domain
    /\ stream = None /\ closed = <<>> /\ file = <<>>
    /\ ret = [op |-> "initSheet", exc |-> NoExc, value |-> w.cls, io |-> AllOk]
    /\ appended = <<>> /\ clean = TRUE

Init ==
    /\ ft \in SampleTags /\ url \in Domains
    /\ Constructed(initSheet(ft, url))
    /\ twin = NoTwin

OpenIO(c) ==
    { io \in [open : BOOLEAN, hdr1 : BOOLEAN, hdr2 : BOOLEAN, row : {TRUE},
              footer : BOOLEAN, close : BOOLEAN] :
        /\ io.open => io.footer /\ io.close
        /\ ~io.open => io.hdr1 /\ io.hdr2
        /\ c # "HTML" => io.hdr2 /\ io.footer }

\* open() under the I/O outcomes io
OpenWith(io) ==
    /\ Len(closed) < MaxHandles
    /\ LET r == open(cls, S, io) IN
         /\ stream' = r.s.stream /\ closed' = r.s.closed /\ file' = r.s.file
         /\ ret' = [op |-> "open", exc |-> r.exc, value |-> r.value, io |-> io]
         /\ appended' = IF io.open THEN <<>> ELSE appended
         /\ clean' = ((io.open \/ clean) /\ r.exc = NoExc)
    /\ UNCHANGED <<ft, url, cls, fn, enc, wland_domain>>

Open ==
    /\ \E io \in OpenIO(cls) : OpenWith(io)
    /\ UNCHANGED twin

\* append(p) under the I/O outcomes io
AppendWith(p, io) ==
    /\ Len(appended) < MaxRows
    /\ LET r == SheetGenerator_append(cls, wland_domain, S, p, io) IN
         /\ stream' = r.s.stream /\ closed' = r.s.closed /\ file' = r.s.file
         /\ ret' = [op |-> "append", exc |-> r.exc, value |-> r.value, io |-> io]
         /\ appended' = IF r.exc = NoExc THEN Append(appended, p) ELSE appended
         /\ clean' = (clean /\ r.exc = NoExc)
    /\ UNCHANGED <<ft, url, cls, fn, enc, wland_domain>>

AppendRecord ==
    /\ \E p \in Passages, ok \in BOOLEAN : AppendWith(p, [AllOk EXCEPT !.row = ok])
    /\ UNCHANGED twin

CloseIO(c) ==
    { io \in [open : {TRUE}, hdr1 : {TRUE}, hdr2 : {TRUE}, row : {TRUE},
              footer : BOOLEAN, close : BOOLEAN] :
        c # "HTML" => io.footer }

\* close() under the I/O outcomes io
CloseWith(io) ==
    /\ LET r == close(cls, S, io) IN
         /\ stream' = r.s.stream /\ closed' = r.s.closed /\ file' = r.s.file
         /\ ret' = [op |-> "close", exc |-> r.exc, value |-> r.value, io |-> io]
         /\ clean' = (clean /\ r.exc = NoExc)
    /\ UNCHANGED <<ft, url, cls, fn, enc, wland_domain, appended>>

Close ==
    /\ \E io \in CloseIO(cls) : CloseWith(io)
    /\ UNCHANGED twin

Next == Open \/ AppendRecord \/ Close

Spec == Init /\ [][Next]_vars

\* --------------------------------------------- factory specification
\* initSheet applied to every tag of at most MaxTagLen characters
TagChars == {"h", "t", "m", "l", "d", "H", "."}

Tags == UNION { [1..n -> TagChars] : n \in 0..MaxTagLen }

InitFactory ==
    /\ ft \in Tags /\ url \in Domains
    /\ cls = "unset" /\ fn = <<>> /\ enc = "unset" /\ wland_domain = NoAttr
    /\ stream = None /\ closed = <<>> /\ file = <<>>
    /\ ret = [op |-> "none", exc |-> NoExc, value |-> "-", io |-> AllOk]
    /\ appended = <<>> /\ clean = TRUE
    /\ twin = NoTwin

InitSheetCall ==
    /\ cls = "unset"
    /\ LET w == initSheet(ft, url) IN
         /\ cls' = w.cls /\ fn' = w.fn /\ enc' = w.enc
         /\ wland_domain' = w.wland_domain
         /\ ret' = [op |-> "initSheet", exc |-> NoExc, value |-> w.cls, io |-> AllOk]
    /\ UNCHANGED <<ft, url, stream, closed, file, appended, clean, twin>>

SpecFactory == InitFactory /\ [][InitSheetCall]_vars

\* ------------------------------------------------- helpers of the claims
IsPrefix(a, b) == Len(a) <= Len(b) /\ SubSeq(b, 1, Len(a)) = a

Drop(n, s) == SubSeq(s, n + 1, Len(s))

\* the k-th smallest member of a set of positions
Nth(P, k) == CHOOSE i \in P : Cardinality({j \in P : j <= i}) = k

\* the lines of a text, each ended by the line terminator (and the rest after
\* the last terminator, if any)
SplitLines(s) ==
    LET ends == {i \in 1..Len(s) : s[i] = NL}
        n == Cardinality(ends)
        start(k) == IF k = 1 THEN 1 ELSE Nth(ends, k - 1) + 1
        rest == IF n = 0 THEN s ELSE Drop(Nth(ends, n), s)
    IN  [k \in 1..n |-> SubSeq(s, start(k), Nth(ends, k) - 1)]
            \o (IF rest = <<>> THEN <<>> ELSE <<rest>>)

\* number of occurrences of sub in s
CountSub(s, sub) ==
    Cardinality({i \in 1..(Len(s) - Len(sub) + 1) : SubSeq(s, i, i + Len(sub) - 1) = sub})

VoidElements == {"meta"}

\* index of the first token from position i on that ends a tag, 0 if none
TagEnd(s, i) ==
    LET ends == {j \in i..Len(s) : s[j] \in {">", "/>"}} IN
    IF ends = {} THEN 0 ELSE Nth(ends, 1)

RECURSIVE NestedFrom(_, _, _, _)
\* the tags of s from the k-th on close the elements of the stack and their
\* own, innermost first; <x/> closes itself and a void element needs no
\* closing tag
NestedFrom(s, tags, k, stack) ==
    IF k > Cardinality(tags) THEN stack = <<>>
    ELSE LET i == Nth(tags, k)
             e == TagEnd(s, i + 1)
         IN  /\ e >= i + 2
             /\ IF s[i] = "<"
                THEN NestedFrom(s, tags, k + 1,
                                IF s[e] = "/>" \/ s[i + 1] \in VoidElements
                                THEN stack ELSE <<s[i + 1]>> \o stack)
                ELSE /\ e = i + 2
                     /\ stack # <<>> /\ Head(stack) = s[i + 1]
                     /\ NestedFrom(s, tags, k + 1, Tail(stack))

WellNested(s) == NestedFrom(s, {i \in 1..Len(s) : s[i] \in {"<", "</"}}, 1, <<>>)

\* the headers as the formats document them
ExpectedCSVHeader ==
    <<"Author", " ", "UID", ",", "Author", " ", "user", " ", "name", ",", "WID",
      ",", "Title", ",", "Origins", ",", "Tags", NL>>

ExpectedMarkDownHeader ==
    <<"|", "Author", "|", "Title", "|", "Origins", "|", "Tags", "|", NL,
      "|", "-", "|", "-", "|", "-", "|", "-", "|", NL>>

ExpectedHTMLPrologue ==
    <<"<", "html", ">", "<", "head", ">",
      "<", "meta", " ", "charset", "=", "\"", "utf-8", "\"", ">",
      "<", "title", ">", "Wland", " ", "Parody", " ", "Filter", "</", "title", ">",
      "</", "head", ">", NL,
      "<", "body", ">", "<", "table", " ", "border", "=", "\"", "1", "\"", ">",
      "<", "caption", "/>", "Search", " ", "Result",
      "<", "tr", ">", "<", "th", "/>", "Author", "<", "th", "/>", "Title",
      "<", "th", "/>", "Origins", "<", "th", "/>", "Tags", "</", "tr", ">", NL>>

ExpectedHeader(c) ==
    CASE c = "CSV" -> ExpectedCSVHeader
      [] c = "MarkDown" -> ExpectedMarkDownHeader
      [] c = "HTML" -> ExpectedHTMLPrologue

ExpectedHTMLFooter ==
    <<"</", "table", ">", "</", "body", ">", "</", "html", ">", NL>>

Held == stream # None
IsOpen == stream # None /\ ~closed[stream]

\* ---------------------------------------------------------------- claims

\* C1: whenever acquiring the output resource fails inside open(), the call
\* returns False without raising, and the writer holds no resource and no
\* handle is left open.
C1_OpenFailureReturnsFalse ==
    (ret.op = "open" /\ ~ret.io.open) =>
        /\ ret.exc = NoExc /\ ret.value = "False"
        /\ stream = None
        /\ \A h \in 1..Len(closed) : closed[h]

\* C2: after a successful open and N appends, each returned, the output after
\* the header consists of exactly N row-lines (CSV, MarkDown), the i-th being
\* the rendering of the i-th record, or holds exactly N row elements (HTML),
\* whatever text the fields of the records contain.
C2_OneRowPerRecord ==
    (clean /\ Held /\ ret.op \in {"open", "append"} /\ IsPrefix(ExpectedHeader(cls), file)) =>
        LET body == Drop(Len(ExpectedHeader(cls)), file) IN
        IF cls = "HTML"
        THEN CountSub(body, <<"<", "tr", ">">>) = Len(appended)
        ELSE SplitLines(body)
               = [i \in 1..Len(appended) |-> tableItem(cls, wland_domain, appended[i])]

\* C3: for the HTML writer, open, N appends and close, each returned, leave one
\* well-formed document: the opening part once and first, then exactly N row
\* elements, then the closing tags of table, body and html once and last, every
\* opened element closed in nesting order.
C3_HTMLDocumentWellFormed ==
    (cls = "HTML" /\ clean /\ ret.op = "close" /\ ret.exc = NoExc) =>
        /\ IsPrefix(ExpectedHTMLPrologue, file)
        /\ EndsWith(file, ExpectedHTMLFooter)
        /\ CountSub(file, <<"<", "html", ">">>) = 1
        /\ CountSub(file, <<"<", "body", ">">>) = 1
        /\ CountSub(file, <<"<", "table">>) = 1
        /\ CountSub(file, <<"</", "table", ">">>) = 1
        /\ CountSub(file, <<"</", "body", ">">>) = 1
        /\ CountSub(file, <<"</", "html", ">">>) = 1
        /\ CountSub(Drop(Len(ExpectedHTMLPrologue), file), <<"<", "tr", ">">>)
             = Len(appended)
        /\ WellNested(file)

\* C4: close() on an HTML writer whose resource is unwritable (no stream, or a
\* stream that was closed) raises nothing and writes nothing.
C4_HTMLCloseOnUnwritable ==
    [][(cls = "HTML" /\ ret'.op = "close" /\ (stream = None \/ closed[stream])) =>
          (ret'.exc = NoExc /\ file' = file)]_vars

\* C5: after open() failed to acquire the destination the writer holds no
\* resource, and an append that follows writes nothing, leaves the writer
\* Closed and does not fail by dereferencing the absent stream.
C5_AppendAfterFailedOpenRejected ==
    [][(ret.op = "open" /\ ~ret.io.open /\ ret'.op = "append") =>
          /\ stream = None
          /\ ret'.exc # "AttributeError"
          /\ file' = file /\ stream' = None]_vars

\* C6: the value returned by open() is True exactly when the writer is left
\* Open and False exactly when it is left Closed.
C6_OpenResultTellsSuccess ==
    (ret.op = "open" /\ ret.exc = NoExc) =>
        \/ ret.value = "True" /\ IsOpen
        \/ ret.value = "False" /\ stream = None

\* C7: when open() has acquired the resource and returned, the truncated file
\* holds exactly the complete header of the format, the stream is open and no
\* row is recorded; and as long as no call has raised since, the header stays
\* the beginning of the output, before every row.
C7_HeaderWrittenOnOpen ==
    /\ (ret.op = "open" /\ ret.exc = NoExc /\ Held) =>
          (file = ExpectedHeader(cls) /\ IsOpen /\ appended = <<>>)
    /\ (clean /\ file # <<>>) => IsPrefix(ExpectedHeader(cls), file)

\* a second successful open of an HTML writer: the earlier output is gone
C7_Witness ==
    /\ cls = "HTML" /\ ret.op = "open" /\ ret.exc = NoExc /\ Held
    /\ Len(closed) = 2 /\ file = ExpectedHTMLPrologue

\* C8: close() on an Open writer always leaves the resource released and the
\* writer without a stream.
C8_CloseAlwaysReleases ==
    [][(ret'.op = "close" /\ stream # None /\ ~closed[stream]) =>
          (stream' = None /\ closed'[stream])]_vars

\* C9: initSheet builds an HTML writer iff the lower-cased tag ends with html
\* or htm, otherwise a MarkDown writer iff it ends with md, otherwise a CSV
\* writer: the decision taken on the path ./wland.<tag> is the decision on the
\* tag alone.
ExpectedClass(tag) ==
    LET t == Lower(tag) IN
    IF EndsWith(t, <<"h", "t", "m", "l">>) \/ EndsWith(t, <<"h", "t", "m">>) THEN "HTML"
    ELSE IF EndsWith(t, <<"m", "d">>) THEN "MarkDown"
    ELSE "CSV"

C9_FactoryDispatch ==
    (ret.op = "initSheet") =>
        /\ cls = ExpectedClass(ft)
        /\ fn = PathPrefix \o Lower(ft)

\* a mixed-case tag that merely ends in a recognized suffix
C9_Witness ==
    /\ ret.op = "initSheet" /\ ft = <<".", "H", "t", "m">> /\ cls = "HTML"

\* C10: for the CSV writer, open, appends and close, each returned, leave the
\* header line followed by one row per record and nothing else, a row being
\* the six fields authorId, authorName, contentId, title, origins, tags joined
\* by commas, origins and tags each joined by one space.
ExpectedCSVRow(p) ==
    Join(<<",">>, <<Str(p.author_uid), p.author_name, Str(p.wid), p.title,
                    Join(<<" ">>, p.hashtags), Join(<<" ">>, p.tags)>>) \o <<NL>>

ScenarioPassage ==
    [author_uid |-> 1, author_name |-> <<"A">>, wid |-> 10, title |-> <<"T">>,
     hashtags |-> <<<<"x">>, <<"y">>>>, tags |-> <<<<"t", "1">>>>]

Split(s, tok) ==
    LET seps == {i \in 1..Len(s) : s[i] = tok}
        n == Cardinality(seps)
        start(k) == IF k = 1 THEN 1 ELSE Nth(seps, k - 1) + 1
        stop(k) == IF k = n + 1 THEN Len(s) ELSE Nth(seps, k) - 1
    IN  [k \in 1..(n + 1) |-> SubSeq(s, start(k), stop(k))]

\* the texts that follow the header cell tags <th/> of an HTML text, in order
HeaderCells(s) ==
    LET ths == {i \in 1..(Len(s) - 3) : SubSeq(s, i, i + 2) = <<"<", "th", "/>">>}
    IN  [k \in 1..Cardinality(ths) |-> s[Nth(ths, k) + 3]]

\* C11: the header written by the CSV writer, split on the comma, has exactly
\* 6 fields; the headers written by the MarkDown and the HTML writer describe
\* exactly 4 columns, in the order Author, Title, Origins, Tags.
C11_HeaderShape ==
    (ret.op = "open" /\ ret.exc = NoExc /\ Held) =>
        CASE cls = "CSV" ->
               /\ Len(SplitLines(file)) = 1
               /\ Len(Split(SplitLines(file)[1], ",")) = 6
          [] cls = "MarkDown" ->
               /\ Len(SplitLines(file)) = 2
               /\ Split(SplitLines(file)[1], "|")
                    = <<<<>>, <<"Author">>, <<"Title">>, <<"Origins">>, <<"Tags">>, <<>>>>
               /\ Split(SplitLines(file)[2], "|")
                    = <<<<>>, <<"-">>, <<"-">>, <<"-">>, <<"-">>, <<>>>>
          [] cls = "HTML" ->
               HeaderCells(file) = <<"Author", "Title", "Origins", "Tags">>

\* the header of a CSV writer right after its first open
C11_Witness ==
    /\ cls = "CSV" /\ ret.op = "open" /\ ret.exc = NoExc /\ Held
    /\ Len(closed) = 1 /\ file # <<>>

\* C12: in the HTML output the caption, every header cell and every data cell
\* is an element with an opening and a matching closing tag around its
\* content, in <tr> rows of a <table border="1"> within <body> within <html>.
C12_CellsAreEnclosed ==
    (cls = "HTML" /\ clean /\ IsOpen /\ ret.op \in {"open", "append"}) =>
        /\ CountSub(file, <<"<", "caption", ">">>) = 1
        /\ CountSub(file, <<"</", "caption", ">">>) = 1
        /\ CountSub(file, <<"<", "th", ">">>) = 4
        /\ CountSub(file, <<"</", "th", ">">>) = 4
        /\ CountSub(file, <<"<", "td", ">">>) = 4 * Len(appended)
        /\ CountSub(file, <<"</", "td", ">">>) = 4 * Len(appended)
        /\ CountSub(file, <<"<", "table", " ", "border", "=", "\"", "1", "\"", ">">>) = 1
        /\ CountSub(file, <<"<", "body", ">">>) = 1
        /\ CountSub(file, <<"<", "html", ">">>) = 1

\* the rows of the two linking formats, written out for a domain and a record
AuthorTarget(d, p) == <<"https://">> \o d \o <<"/u">> \o Str(p.author_uid)
TitleTarget(d, p) == <<"https://">> \o d \o <<"/wid">> \o Str(p.wid)

ExpectedMarkDownRow(d, p) ==
    <<"|", "[">> \o p.author_name \o <<"]", "(">> \o AuthorTarget(d, p) \o <<")">>
      \o <<"|", "[">> \o p.title \o <<"]", "(">> \o TitleTarget(d, p) \o <<")">>
      \o <<"|">> \o Join(<<",", " ">>, p.hashtags)
      \o <<"|">> \o Join(<<",", " ">>, p.tags) \o <<"|", NL>>

ExpectedAnchor(target, shown) ==
    <<"<", "a", " ", "href", "=", "\"">> \o target
      \o <<"\"", " ", "target", "=", "\"", "_blank", "\"", " ",
           "rel", "=", "\"", "noopener", " ", "noreferrer", "\"", ">">>
      \o shown \o <<"</", "a", ">">>

ExpectedHTMLRow(d, p) ==
    <<"<", "tr", ">">>
      \o <<"<", "td", "/>">> \o ExpectedAnchor(AuthorTarget(d, p), p.author_name)
      \o <<"<", "td", "/>">> \o ExpectedAnchor(TitleTarget(d, p), p.title)
      \o <<"<", "td", "/>">> \o Join(<<",", " ">>, p.hashtags)
      \o <<"<", "td", "/>">> \o Join(<<",", " ">>, p.tags)
      \o <<"</", "tr", ">", NL>>

ExpectedRow(c, d, p) ==
    CASE c = "CSV" -> ExpectedCSVRow(p)
      [] c = "MarkDown" -> ExpectedMarkDownRow(d, p)
      [] c = "HTML" -> ExpectedHTMLRow(d, p)

LastAppended == appended[Len(appended)]

\* C13: the row written by the MarkDown and by the HTML writer for a record
\* with author id a and content id c, the factory having been given the host
\* name d, links the author name to exactly https://<d>/u<a> and the title to
\* exactly https://<d>/wid<c>; for a = 42, c = 7 and d = example.org the
\* targets are https://example.org/u42 and https://example.org/wid7.
C13_LinkTargets ==
    (cls \in {"MarkDown", "HTML"} /\ ret.op = "append" /\ ret.exc = NoExc) =>
        /\ EndsWith(file, ExpectedRow(cls, url, LastAppended))
        /\ (url = <<"example.org">> /\ LastAppended.author_uid = 42
                /\ LastAppended.wid = 7) =>
             LET row == SubSeq(file, Len(file) - Len(ExpectedRow(cls, url, LastAppended)) + 1,
                               Len(file))
             IN  /\ CountSub(row, <<"https://", "example.org", "/u", "4", "2">>) = 1
                 /\ CountSub(row, <<"https://", "example.org", "/wid", "7">>) = 1
                 /\ CountSub(row, <<"https://">>) = 2

\* the example of the specification, written by the HTML writer
C13_Witness ==
    /\ cls = "HTML" /\ ret.op = "append" /\ ret.exc = NoExc
    /\ url = <<"example.org">> /\ Len(appended) = 1
    /\ appended[1].author_uid = 42 /\ appended[1].wid = 7

\* C14: in every reachable state the writer owns at most one open resource:
\* every handle it ever acquired is the one it holds or has been released.
C14_NoHandleLeaked ==
    /\ \A h \in 1..Len(closed) : ~closed[h] => stream = h
    /\ Cardinality({h \in 1..Len(closed) : ~closed[h]}) <= 1

\* C15: when the resource is acquired but a write of the header fails inside
\* open(), open() returns False without raising, the resource is released and
\* the writer is left without a stream.
C15_HeaderFaultReturnsFalse ==
    (ret.op = "open" /\ ret.io.open /\ (~ret.io.hdr1 \/ ~ret.io.hdr2)) =>
        /\ ret.exc = NoExc /\ ret.value = "False"
        /\ stream = None
        /\ closed[Len(closed)]

\* an open() call that did not acquire the file or that raised
OpenFailed(r) == r.op = "open" /\ (~r.io.open \/ r.exc # NoExc)

\* C16: an open() that fails on a Closed writer leaves the writer Closed, with
\* no resource held and no header written; and an open() that succeeds right
\* after it leaves the writer Open with exactly the header in the output.
C16_FailedOpenCanBeRetried ==
    [][/\ (stream = None /\ OpenFailed(ret')) =>
            /\ stream' = None
            /\ \A h \in 1..Len(closed') : closed'[h]
            /\ file' = file
       /\ (OpenFailed(ret) /\ ret'.op = "open" /\ ~OpenFailed(ret')) =>
            /\ stream' # None /\ ~closed'[stream']
            /\ file' = ExpectedHeader(cls)]_vars

\* all field texts of a record, kept apart by a token no field contains
FieldsOf(p) ==
    Join(<<"#">>, <<p.author_name, p.title>> \o p.hashtags \o p.tags)

ClosingTags == { <<"</", "table", ">">>, <<"</", "body", ">">>, <<"</", "html", ">">> }

\* C17: while an HTML writer is Open (it holds a stream that is not closed),
\* its output is a beginning of the prologue followed by the rows appended
\* since the file was opened, and holds no closing tag of table, body or html
\* other than those inside the fields of the appended records.
C17_NoFooterWhileOpen ==
    (cls = "HTML" /\ IsOpen) =>
        LET rows == Concat([i \in 1..Len(appended) |-> ExpectedHTMLRow(url, appended[i])])
            pre == SubSeq(file, 1, Len(file) - Len(rows))
            fields == Join(<<"#">>, [i \in 1..Len(appended) |-> FieldsOf(appended[i])])
        IN  /\ EndsWith(file, rows)
            /\ IsPrefix(pre, ExpectedHTMLPrologue)
            /\ \A t \in ClosingTags :
                 /\ CountSub(pre, t) = 0
                 /\ CountSub(file, t) = CountSub(fields, t)

\* two rows in an open HTML table, the first with </table> in its title
C17_Witness ==
    /\ cls = "HTML" /\ IsOpen /\ ret.op = "append" /\ ret.exc = NoExc
    /\ Len(appended) = 2 /\ appended[1].title = <<"</", "table", ">">>

\* C18: append(record) on an Open writer changes only the output: when it
\* returns, the output has grown at its end by exactly the row of the record
\* and one line terminator; the earlier output, the stream, the handles, the
\* file name, the encoding, the domain and the records appended before are
\* unchanged (when the write raises, the output is unchanged as well).
C18_AppendFrame ==
    [][(ret'.op = "append" /\ IsOpen) =>
          /\ stream' = stream /\ closed' = closed
          /\ UNCHANGED <<ft, url, cls, fn, enc, wland_domain>>
          /\ IF ret'.exc = NoExc
             THEN /\ Len(appended') = Len(appended) + 1
                  /\ SubSeq(appended', 1, Len(appended)) = appended
                  /\ appended'[Len(appended')] \in Passages
                  /\ file' = file \o ExpectedRow(cls, url, appended'[Len(appended')])
             ELSE file' = file /\ appended' = appended]_vars

\* a second row appended by a MarkDown writer
C18_Witness ==
    /\ cls = "MarkDown" /\ IsOpen /\ clean /\ ret.op = "append" /\ ret.exc = NoExc
    /\ Len(appended) = 2 /\ appended[1] # appended[2]

\* ------------------------------------------------ two-run specification
\* Two writers built by initSheet from the same tag and two different
\* domains receive the same calls, with the same records and the same I/O
\* outcomes.  The first run is the state of Spec, the second is twin.
TwinS == [stream |-> twin.stream, closed |-> twin.closed, file |-> twin.file]

TwinConstructed(u) ==
    LET w == initSheet(ft, u) IN
    [url |-> u, cls |-> w.cls, fn |-> w.fn, enc |-> w.enc,
     wland_domain |-> w.wland_domain,
     stream |-> None, closed |-> <<>>, file |-> <<>>,
     ret |-> [op |-> "initSheet", exc |-> NoExc, value |-> w.cls, io |-> AllOk],
     appended |-> <<>>, clean |-> TRUE]

TwinOpen(io) ==
    LET r == open(twin.cls, TwinS, io) IN
    [twin EXCEPT !.stream = r.s.stream, !.closed = r.s.closed, !.file = r.s.file,
                 !.ret = [op |-> "open", exc |-> r.exc, value |-> r.value, io |-> io],
                 !.appended = IF io.open THEN <<>> ELSE @,
                 !.clean = ((io.open \/ @) /\ r.exc = NoExc)]

TwinAppend(p, io) ==
    LET r == SheetGenerator_append(twin.cls, twin.wland_domain, TwinS, p, io) IN
    [twin EXCEPT !.stream = r.s.stream, !.closed = r.s.closed, !.file = r.s.file,
                 !.ret = [op |-> "append", exc |-> r.exc, value |-> r.value, io |-> io],
                 !.appended = IF r.exc = NoExc THEN Append(@, p) ELSE @,
                 !.clean = (@ /\ r.exc = NoExc)]

TwinClose(io) ==
    LET r == close(twin.cls, TwinS, io) IN
    [twin EXCEPT !.stream = r.s.stream, !.closed = r.s.closed, !.file = r.s.file,
                 !.ret = [op |-> "close", exc |-> r.exc, value |-> r.value, io |-> io],
                 !.clean = (@ /\ r.exc = NoExc)]

InitPair ==
    /\ ft \in SampleTags /\ url \in Domains
    /\ Constructed(initSheet(ft, url))
    /\ \E u \in Domains \ {url} : twin = TwinConstructed(u)

PairOpen ==
    \E io \in OpenIO(cls) : OpenWith(io) /\ twin' = TwinOpen(io)

PairAppend ==
    \E p \in Passages, ok \in BOOLEAN :
        LET io == [AllOk EXCEPT !.row = ok] IN
        AppendWith(p, io) /\ twin' = TwinAppend(p, io)

PairClose ==
    \E io \in CloseIO(cls) : CloseWith(io) /\ twin' = TwinClose(io)

NextPair == PairOpen \/ PairAppend \/ PairClose

SpecPair == InitPair /\ [][NextPair]_vars

\* C19: of two runs that differ only in the domain given to the factory, with
\* the same tag, calls, records and I/O outcomes, the CSV writers have the same
\* path, the same state, the same results and the same output; the MarkDown
\* and HTML writers hold the domain they were given and every row they write
\* carries it in its two link targets.
C19_DomainOnlyInLinkingFormats ==
    /\ twin.url # url /\ twin.cls = cls /\ twin.fn = fn /\ twin.enc = enc
    /\ cls = "CSV" =>
         /\ twin.wland_domain = wland_domain
         /\ twin.stream = stream /\ twin.closed = closed
         /\ twin.file = file /\ twin.ret = ret
         /\ twin.appended = appended /\ twin.clean = clean
         /\ CountSub(file, url) = 0
    /\ cls \in {"MarkDown", "HTML"} =>
         /\ wland_domain = url /\ twin.wland_domain = twin.url
         /\ twin.stream = stream /\ twin.closed = closed
         /\ IsOpen =>
              /\ CountSub(file, <<"https://">> \o url) = 2 * Len(appended)
              /\ CountSub(file, <<"https://">> \o twin.url) = 0
              /\ CountSub(twin.file, <<"https://">> \o twin.url) = 2 * Len(appended)
              /\ (appended # <<>> => twin.file # file)

\* two CSV runs after open, two appends and close
C19_Witness ==
    /\ cls = "CSV" /\ twin.url # url /\ clean /\ ret.op = "close" /\ ret.exc = NoExc
    /\ Len(appended) = 2 /\ twin.file = file /\ Len(file) > Len(ExpectedCSVHeader)

====
